---- MODULE Spec2Model ----
(***************************************************************************)
(* Venmorph: the RequestManager contract (RequestManager.sol) and the      *)
(* attestor service (attestor/src/index.js) that watches the XRP Ledger    *)
(* and submits payment attestations to the contract.                       *)
(*                                                                         *)
(* Six specifications share the variables:                                 *)
(*   Spec          the attestor process running against the contract and   *)
(*                 the ledger; every await on a network call is a step, so *)
(*                 timer callbacks interleave exactly where Node lets them *)
(*   SpecStop      the attestor against a deployed contract, with the      *)
(*                 SIGINT / SIGTERM handlers                               *)
(*   SpecLive      the attestor against a deployed contract with no        *)
(*                 network call failing, under fair scheduling             *)
(*   SpecContract  the contract alone, called by arbitrary senders         *)
(*   SpecContractAdmin  the same with the owner's asset functions          *)
(*   SpecMatch     the pure predicate matchesRequest on drawn inputs       *)
(***************************************************************************)
EXTENDS Integers, Sequences, FiniteSets, TLC

\* ------------------------------------------------------------------ bounds
\* requests the contract may hold in a run
MaxRequests == 2
\* highest ledger index the XRP Ledger validates in a run
MaxLedger == 3
\* ledger-poll callbacks that may be in flight at once (setInterval does not
\* wait for the previous async callback)
MaxOverlap == 2
\* block timestamps run 0..MaxTime
MaxTime == 2
\* transactions one ledger may carry
MaxTxPerLedger == 1

\* ------------------------------------------------- RequestManager.sol: data
\* enum RequestStatus { PENDING, PAID, CANCELLED, EXPIRED }
PENDING == 0
PAID == 1
CANCELLED == 2
EXPIRED == 3

\* require(_slippageBp <= 1000)
MaxSlippageBp == 1000
\* basis-point denominator of minAcceptableAmount
BpDenominator == 10000

ZeroAddress == "0x0"
Owner == "deployer"
Users == {"alice", "bob"}
Senders == Users \cup {Owner, "mallory"}
NoHash == "0x00"

\* the assets the constructor registers
InitialAssets == {"ETH", "XRP", "BTC", "USDT", "USDC"}

EmptyRequest ==
    [creator |-> ZeroAddress, recipientXRPL |-> "", assetSymbol |-> "",
     assetAmount |-> 0, expiry |-> 0, slippageBp |-> 0, status |-> PENDING,
     paidTxHash |-> NoHash, paidAmount |-> 0, paidTimestamp |-> 0]

VARIABLES
    \* ---- contract storage and chain
    requestIds,           \* Counters.Counter _requestIds
    requests,             \* mapping(uint256 => Request), ids 1..MaxRequests
    authorizedAttestors,  \* mapping(address => bool), as a set
    supportedAssets,      \* mapping(string => bool), as a set
    now,                  \* block.timestamp
    \* ---- XRP Ledger
    validatedLedger,      \* sequence number of the last validated ledger
    ledgers,              \* ledger index -> its transactions, in order
    \* ---- the attestor's environment and fields
    config,               \* which of the required settings the environment gives
    shutdown,             \* where the SIGINT/SIGTERM handler is
    isRunning,
    lastProcessedLedger,  \* 0 stands for null (ledger sequences are >= 1)
    pendingRequests,      \* Map in insertion order: Seq of [id, request]
    processedTransactions,
    \* ---- control state of the async code
    mainPc,               \* where start()/initialize() is
    load,                 \* loop state of loadPendingRequests
    refresh,              \* the request-monitoring callback in flight
    poll,                 \* slot -> the ledger-poll callback in flight
    active,               \* the slot running synchronously (0: event loop idle)
    \* ---- history (not program state)
    startLedger,          \* the watermark initializeXRPL recorded
    fullyProcessed,       \* ledgers fetched and wholly passed to processTransaction
    submitCount,          \* request id -> submitAttestation calls made
    submitFailed,         \* some submitAttestation call has failed
    highExamined,         \* highest id load/refresh has asked getRequest for
    \* ---- SpecMatch
    mTx, mRequest, mResult

contractVars == <<requestIds, requests, authorizedAttestors, supportedAssets, now>>
xrplVars == <<validatedLedger, ledgers>>
attestorVars == <<isRunning, lastProcessedLedger, pendingRequests, processedTransactions>>
controlVars == <<mainPc, load, refresh, poll, active>>
historyVars == <<startLedger, fullyProcessed, submitCount, submitFailed, highExamined>>
matchVars == <<mTx, mRequest, mResult>>
processVars == <<config, shutdown>>
vars == <<contractVars, xrplVars, processVars, attestorVars, controlVars, historyVars, matchVars>>

RequestIdRange == 1..MaxRequests

\* requests[id]: a slot never written reads as zeroes
requestAt(id) == IF id \in RequestIdRange THEN requests[id] ELSE EmptyRequest

\* modifier validRequest: _requestId <= _requestIds.current() and
\* requests[_requestId].creator != address(0)
validRequest(id) ==
    /\ id <= requestIds
    /\ requestAt(id).creator # ZeroAddress

\* MockFtsoRegistry constructor: USD prices with 5 decimals; a symbol the
\* registry has no price for reads as 0. (BTC, at 4500000000, is beyond
\* TLC's integers and is left out: no specification draws BTC.)
ftsoPrice(symbol) ==
    CASE symbol = "ETH" -> 200000000
      [] symbol = "XRP" -> 50000
      [] symbol = "USDT" -> 100000
      [] symbol = "USDC" -> 100000
      [] OTHER -> 0

ftsoDecimals(symbol) == IF ftsoPrice(symbol) > 0 THEN 5 ELSE 0

\* getCurrentPriceWithDecimals reverts for a symbol without a price, and
\* calculateXRPAmount requires both prices positive; XRP needs no price
priceDataValid(assetSymbol) ==
    IF assetSymbol = "XRP"
    THEN TRUE
    ELSE ftsoPrice(assetSymbol) > 0 /\ ftsoPrice("XRP") > 0

RECURSIVE Pow10(_)
Pow10(n) == IF n = 0 THEN 1 ELSE 10 * Pow10(n - 1)

\* calculateXRPAmount: an XRP request needs assetAmount itself; any other
\* asset is converted through the registry's two prices:
\*   (_assetAmount * assetPrice * 10**xrpDecimals) / (xrpPrice * 10**assetDecimals)
\* The contract computes in uint256; the power of ten common to numerator and
\* denominator is cancelled here, which leaves the quotient as it is and
\* keeps the products within TLC's 32-bit integers.
calculateXRPAmount(assetSymbol, assetAmount) ==
    IF assetSymbol = "XRP"
    THEN assetAmount
    ELSE LET xrpDecimals == ftsoDecimals("XRP")
             assetDecimals == ftsoDecimals(assetSymbol)
             common == IF xrpDecimals <= assetDecimals THEN xrpDecimals
                                                       ELSE assetDecimals
         IN  (assetAmount * ftsoPrice(assetSymbol) * Pow10(xrpDecimals - common))
                \div (ftsoPrice("XRP") * Pow10(assetDecimals - common))

\* uint256 minAcceptableAmount = (requiredXRP * (10000 - slippageBp)) / 10000
minAcceptableAmount(request) ==
    (calculateXRPAmount(request.assetSymbol, request.assetAmount)
        * (BpDenominator - request.slippageBp)) \div BpDenominator

\* ------------------------------------------- RequestManager.sol: functions
\* Every function is an operator over the sender and the arguments; a call
\* that reverts changes nothing, so it is no step of the contract.

\* createRequestAccepted without require(_slippageBp <= 1000)
createRequestAcceptedAnySlippage(recipientXRPL, assetSymbol, assetAmount, expiry, slippageBp) ==
    /\ recipientXRPL # ""
    /\ assetSymbol \in supportedAssets
    /\ assetAmount > 0
    /\ expiry > now

\* the five requires of createRequest
createRequestAccepted(recipientXRPL, assetSymbol, assetAmount, expiry, slippageBp) ==
    /\ recipientXRPL # ""
    /\ assetSymbol \in supportedAssets
    /\ assetAmount > 0
    /\ expiry > now
    /\ slippageBp <= MaxSlippageBp

\* createRequest writing the record at the counter's old value
createRequestBeforeIncrement(sender, recipientXRPL, assetSymbol, assetAmount, expiry, slippageBp) ==
    /\ requestIds < MaxRequests
    /\ createRequestAccepted(recipientXRPL, assetSymbol, assetAmount, expiry, slippageBp)
    /\ requestIds' = requestIds + 1
    /\ requests' = [requests EXCEPT ![IF requestIds = 0 THEN 1 ELSE requestIds] =
            [creator |-> sender, recipientXRPL |-> recipientXRPL,
             assetSymbol |-> assetSymbol, assetAmount |-> assetAmount,
             expiry |-> expiry, slippageBp |-> slippageBp, status |-> PENDING,
             paidTxHash |-> NoHash, paidAmount |-> 0, paidTimestamp |-> 0]]
    /\ UNCHANGED <<authorizedAttestors, supportedAssets, now>>

\* _requestIds.increment(); newRequestId = _requestIds.current(); the record
\* is written at requests[newRequestId]
createRequest(sender, recipientXRPL, assetSymbol, assetAmount, expiry, slippageBp) ==
    /\ requestIds < MaxRequests
    /\ createRequestAccepted(recipientXRPL, assetSymbol, assetAmount, expiry, slippageBp)
    /\ requestIds' = requestIds + 1
    /\ requests' = [requests EXCEPT ![requestIds + 1] =
            [creator |-> sender, recipientXRPL |-> recipientXRPL,
             assetSymbol |-> assetSymbol, assetAmount |-> assetAmount,
             expiry |-> expiry, slippageBp |-> slippageBp, status |-> PENDING,
             paidTxHash |-> NoHash, paidAmount |-> 0, paidTimestamp |-> 0]]
    /\ UNCHANGED <<authorizedAttestors, supportedAssets, now>>

\* attestationAccepted without require(block.timestamp <= request.expiry)
attestationAcceptedAfterExpiry(sender, id, paidAmountXRP, timestamp) ==
    /\ sender \in authorizedAttestors
    /\ validRequest(id)
    /\ requestAt(id).status = PENDING
    /\ timestamp <= now
    /\ priceDataValid(requestAt(id).assetSymbol)
    /\ paidAmountXRP >= minAcceptableAmount(requestAt(id))

\* attestationAccepted without require(_paidAmountXRP >= minAcceptableAmount)
attestationAcceptedAnyAmount(sender, id, paidAmountXRP, timestamp) ==
    /\ sender \in authorizedAttestors
    /\ validRequest(id)
    /\ requestAt(id).status = PENDING
    /\ now <= requestAt(id).expiry
    /\ timestamp <= now
    /\ priceDataValid(requestAt(id).assetSymbol)

\* attestationAccepted without the modifier onlyAuthorizedAttestor
attestationAcceptedAnySender(sender, id, paidAmountXRP, timestamp) ==
    /\ validRequest(id)
    /\ requestAt(id).status = PENDING
    /\ now <= requestAt(id).expiry
    /\ timestamp <= now
    /\ priceDataValid(requestAt(id).assetSymbol)
    /\ paidAmountXRP >= minAcceptableAmount(requestAt(id))

\* attestationAccepted without require(request.status == PENDING)
attestationAcceptedAnyStatus(sender, id, paidAmountXRP, timestamp) ==
    /\ sender \in authorizedAttestors
    /\ validRequest(id)
    /\ now <= requestAt(id).expiry
    /\ timestamp <= now
    /\ priceDataValid(requestAt(id).assetSymbol)
    /\ paidAmountXRP >= minAcceptableAmount(requestAt(id))

\* onlyAuthorizedAttestor, validRequest and the four requires of
\* submitPaymentAttestation
attestationAccepted(sender, id, paidAmountXRP, timestamp) ==
    /\ sender \in authorizedAttestors
    /\ validRequest(id)
    /\ requestAt(id).status = PENDING
    /\ now <= requestAt(id).expiry
    /\ timestamp <= now
    /\ priceDataValid(requestAt(id).assetSymbol)
    /\ paidAmountXRP >= minAcceptableAmount(requestAt(id))

\* paidRequests with the three proof fields left unwritten
paidRequestsWithoutProof(id, txHash, paidAmountXRP, timestamp) ==
    [requests EXCEPT ![id].status = PAID]

\* the storage submitPaymentAttestation leaves behind
paidRequests(id, txHash, paidAmountXRP, timestamp) ==
    [requests EXCEPT ![id].status = PAID, ![id].paidTxHash = txHash,
                     ![id].paidAmount = paidAmountXRP,
                     ![id].paidTimestamp = timestamp]

submitPaymentAttestation(sender, id, txHash, paidAmountXRP, timestamp) ==
    /\ attestationAccepted(sender, id, paidAmountXRP, timestamp)
    /\ requests' = paidRequests(id, txHash, paidAmountXRP, timestamp)
    /\ UNCHANGED <<requestIds, authorizedAttestors, supportedAssets, now>>

\* cancelRequestAccepted without require(request.creator == msg.sender)
cancelRequestAcceptedAnySender(sender, id) ==
    /\ validRequest(id)
    /\ requestAt(id).status = PENDING

\* validRequest and the two requires of cancelRequest
cancelRequestAccepted(sender, id) ==
    /\ validRequest(id)
    /\ requestAt(id).creator = sender
    /\ requestAt(id).status = PENDING

cancelRequest(sender, id) ==
    /\ cancelRequestAccepted(sender, id)
    /\ requests' = [requests EXCEPT ![id].status = CANCELLED]
    /\ UNCHANGED <<requestIds, authorizedAttestors, supportedAssets, now>>

\* markExpiredAccepted without require(block.timestamp > request.expiry)
markExpiredAcceptedAnyTime(id) ==
    /\ validRequest(id)
    /\ requestAt(id).status = PENDING

\* validRequest and the two requires of markExpired
markExpiredAccepted(id) ==
    /\ validRequest(id)
    /\ requestAt(id).status = PENDING
    /\ now > requestAt(id).expiry

markExpired(sender, id) ==
    /\ markExpiredAccepted(id)
    /\ requests' = [requests EXCEPT ![id].status = EXPIRED]
    /\ UNCHANGED <<requestIds, authorizedAttestors, supportedAssets, now>>

\* onlyOwner admin functions
addSupportedAsset(sender, symbol) ==
    /\ sender = Owner
    /\ supportedAssets' = supportedAssets \cup {symbol}
    /\ UNCHANGED <<requestIds, requests, authorizedAttestors, now>>

removeSupportedAsset(sender, symbol) ==
    /\ sender = Owner
    /\ supportedAssets' = supportedAssets \ {symbol}
    /\ UNCHANGED <<requestIds, requests, authorizedAttestors, now>>

addAuthorizedAttestor(sender, attestor) ==
    /\ sender = Owner
    /\ authorizedAttestors' = authorizedAttestors \cup {attestor}
    /\ UNCHANGED <<requestIds, requests, supportedAssets, now>>

removeAuthorizedAttestor(sender, attestor) ==
    /\ sender = Owner
    /\ authorizedAttestors' = authorizedAttestors \ {attestor}
    /\ UNCHANGED <<requestIds, requests, supportedAssets, now>>

\* a later block: block.timestamp grows
mineBlock ==
    /\ now < MaxTime
    /\ now' = now + 1
    /\ UNCHANGED <<requestIds, requests, authorizedAttestors, supportedAssets>>

\* ------------------------------------------------------------- XRP Ledger
\* The transactions the ledger may carry. `ledger` with transactions:true is
\* read by the code as objects with hash, TransactionType, Destination,
\* Amount and date; amounts on both sides are compared as plain integers.
\* DestinationTag is the field the payer may set (0: the payment carries no
\* tag; request identifiers start at 1); the attestor reads it nowhere.
TxPool ==
    { [hash |-> "H1", TransactionType |-> "Payment", Destination |-> "rA",
       Amount |-> 5, date |-> 0, DestinationTag |-> 0],
      [hash |-> "H2", TransactionType |-> "Payment", Destination |-> "rB",
       Amount |-> 5, date |-> 0, DestinationTag |-> 2],
      [hash |-> "H3", TransactionType |-> "OfferCreate", Destination |-> "",
       Amount |-> 0, date |-> 0, DestinationTag |-> 0] }

LedgerRange == 1..MaxLedger

RECURSIVE SeqToSet(_)
SeqToSet(q) == IF q = <<>> THEN {} ELSE {Head(q)} \cup SeqToSet(Tail(q))

IncludedTxs == UNION {SeqToSet(ledgers[l]) : l \in 1..validatedLedger}

\* a ledger validates: it carries no transaction, or transactions no earlier
\* ledger carried
closeLedger(txs) ==
    /\ validatedLedger < MaxLedger
    /\ \A k \in 1..Len(txs) : txs[k] \notin IncludedTxs
    /\ \A j, k \in 1..Len(txs) : j # k => txs[j] # txs[k]
    /\ validatedLedger' = validatedLedger + 1
    /\ ledgers' = [ledgers EXCEPT ![validatedLedger + 1] = txs]

\* server_info answers with the validated ledger sequence
ReportedLedgers == {validatedLedger}

\* ------------------------------------------------- attestor/src/index.js
\* config.attestor.batchSize: parseInt(process.env.BATCH_SIZE) || 10
DefaultBatchSize == 10
BatchSizes == {1, DefaultBatchSize}

\* the wallet of ATTESTOR_PRIVATE_KEY; the deploy script authorizes it
AttestorAddress == Owner

\* this.pendingRequests is a Map: insertion order, one entry per key
Keys(m) == {m[k].id : k \in 1..Len(m)}

IndexOf(m, id) == CHOOSE k \in 1..Len(m) : m[k].id = id

\* Map.set: a present key keeps its place and takes the new value
MapSet(m, id, request) ==
    IF id \in Keys(m)
    THEN [m EXCEPT ![IndexOf(m, id)].request = request]
    ELSE Append(m, [id |-> id, request |-> request])

\* Map.delete
MapDelete(m, id) == SelectSeq(m, LAMBDA e : e.id # id)

\* matchesRequest(tx, request)
matchesRequest(tx, request) ==
    /\ tx.Destination = request.recipientXRPL
    /\ tx.Amount = request.assetAmount

\* `if (request.status === 1) this.pendingRequests.set(i, request)`
cacheIfPending(m, i, request) ==
    IF request.status = 1 THEN MapSet(m, i, request) ELSE m

\* getRequest(i) answers unless the chain call fails: the network, or the
\* validRequest modifier (identifier 0 and identifiers never assigned revert)
getRequestAnswers(netOk, i) == netOk /\ validRequest(i)

\* what getRequest(i) returns
getRequest(i) == requestAt(i)

\* getTotalRequests(): _requestIds.current()
getTotalRequests == requestIds

Min(a, b) == IF a <= b THEN a ELSE b
Max(a, b) == IF a >= b THEN a ELSE b

\* failed and errors are history: whether a read of the run failed, and the
\* identifiers whose getRequest failed
IdleLoad == [i |-> 0, end |-> 0, batch |-> 0, failed |-> FALSE, errors |-> {}]
IdleRefresh == [pc |-> "idle", i |-> 0, count |-> 0, from |-> 0, failed |-> FALSE,
                errors |-> {}]
\* failed and skipped are history: the identifiers whose submission failed in
\* the running checkPaymentTransaction call, and the transactions processLedger
\* met that were processed before
IdlePoll == [pc |-> "idle", currentLedger |-> 0, ledger |-> 0, txs |-> <<>>,
             it |-> 0, requestId |-> 0, failed |-> {}, skipped |-> {}]

\* required settings: ATTESTOR_PRIVATE_KEY and REQUEST_MANAGER_ADDRESS
Configs == [privateKey : BOOLEAN, requestManagerAddress : BOOLEAN]
FullConfig == [privateKey |-> TRUE, requestManagerAddress |-> TRUE]

\* the loop stops at the first failed read
nextIndexAbort(i, end, ok) == IF ok THEN i + 1 ELSE end

\* the for loops of loadPendingRequests and of the request-monitoring
\* callback: the try/catch is inside the loop body, so a failed getRequest(i)
\* is warned about and the loop goes on with i++
nextIndex(i, end, ok) == i + 1

\* an error thrown inside a timer callback escapes it and ends the process
errorEscapes(pc) == "exited"

\* the catch blocks of the timer callbacks and of the functions they call
\* (checkXRPLTransactions, processLedger, submitAttestation): the error is
\* logged and the process goes on as it was
errorCaught(pc) == pc

\* the code the process has exited with (-1: it has not)
exitCode == IF mainPc = "exited" THEN 1 ELSE IF mainPc = "stopped" THEN 0 ELSE -1

Slots == 1..MaxOverlap
\* `active` while start() or the request-monitoring callback runs synchronously
MainTask == MaxOverlap + 1
RefreshTask == MaxOverlap + 2
\* `active` once the process has exited: nothing runs any more
Halted == MaxOverlap + 3

\* ---- start(), initialize(), initializeXRPL(), loadPendingRequests()

\* start() -> initialize() -> initializeXRPL(): await xrplClient.connect()
start ==
    /\ mainPc = "new"
    /\ mainPc' = "connect"
    /\ UNCHANGED <<contractVars, xrplVars, attestorVars, load, refresh, poll,
                   active, historyVars, matchVars, processVars>>

\* connect() resolves, then await server_info; a rejection reaches the catch
\* of start(): process.exit(1)
connected(ok) ==
    /\ mainPc = "connect"
    /\ mainPc' = IF ok THEN "server_info" ELSE "exited"
    /\ UNCHANGED <<contractVars, xrplVars, attestorVars, load, refresh, poll,
                   active, historyVars, matchVars, processVars>>

\* initializeFlare with its two checks left out
initializeFlareUnchecked == TRUE

\* initializeFlare returns (TRUE) or throws: it throws when
\* config.flare.privateKey or config.flare.requestManagerAddress is not set
initializeFlare == config.privateKey /\ config.requestManagerAddress

\* server_info resolved: initializeXRPL records the watermark; initializeFlare
\* runs without an await and builds the contract handle or throws (the catch
\* of start(): process.exit(1)); loadPendingRequests awaits getTotalRequests()
initializeXRPL(ok, seq) ==
    /\ mainPc = "server_info"
    /\ seq \in ReportedLedgers
    /\ IF ok
       THEN /\ lastProcessedLedger' = seq
            /\ startLedger' = seq
            /\ mainPc' = IF initializeFlare THEN "getTotalRequests" ELSE "exited"
       ELSE /\ mainPc' = "exited"
            /\ UNCHANGED <<lastProcessedLedger, startLedger>>
    /\ UNCHANGED <<contractVars, xrplVars, isRunning, pendingRequests,
                   processedTransactions, load, refresh, poll, active,
                   fullyProcessed, submitCount, submitFailed, highExamined, matchVars, processVars>>

\* loadPendingRequests: getTotalRequests() resolved; the loop starts at
\* Math.max(0, total - batchSize) and ends before total. With no iteration
\* left the function has completed.
loadTotal(ok) ==
    /\ mainPc = "getTotalRequests"
    /\ IF ~ok
       THEN /\ mainPc' = "exited"
            /\ UNCHANGED <<load, active>>
       ELSE LET total == requestIds
                batchSize == Min(load.batch, total)
                first == Max(0, total - batchSize)
            IN  IF first < total
                THEN /\ load' = [load EXCEPT !.i = first, !.end = total]
                     /\ mainPc' = "getRequest"
                     /\ UNCHANGED active
                ELSE /\ load' = [load EXCEPT !.i = first, !.end = total]
                     /\ mainPc' = "loaded"
                     /\ active' = MainTask
    /\ UNCHANGED <<contractVars, xrplVars, attestorVars, refresh, poll,
                   historyVars, matchVars, processVars>>

\* one iteration of the loop of loadPendingRequests: getRequest(i) resolved
\* or rejected (caught, warned, the loop goes on)
loadRequest(netOk) ==
    /\ mainPc = "getRequest"
    /\ LET i == load.i
           ok == getRequestAnswers(netOk, i)
       IN  /\ pendingRequests' =
                IF ok THEN cacheIfPending(pendingRequests, i, getRequest(i))
                      ELSE pendingRequests
           /\ highExamined' = Max(highExamined, i)
           /\ load' = [load EXCEPT !.i = nextIndex(i, load.end, ok),
                                    !.failed = @ \/ ~ok,
                                    !.errors = IF ok THEN @ ELSE @ \cup {i}]
           /\ IF load'.i < load.end
              THEN UNCHANGED <<mainPc, active>>
              ELSE /\ mainPc' = "loaded"
                   /\ active' = MainTask
    /\ UNCHANGED <<contractVars, xrplVars, isRunning, lastProcessedLedger,
                   processedTransactions, refresh, poll, startLedger,
                   fullyProcessed, submitCount, submitFailed, matchVars, processVars>>

\* loadPendingRequests and initialize() have returned: start() sets
\* isRunning = true and calls startRequestMonitoring and startXRPLMonitoring
startMonitoring ==
    /\ mainPc = "loaded"
    /\ active = MainTask
    /\ isRunning' = TRUE
    /\ mainPc' = "running"
    /\ load' = [IdleLoad EXCEPT !.batch = load.batch]
    /\ active' = 0
    /\ UNCHANGED <<contractVars, xrplVars, lastProcessedLedger, pendingRequests,
                   processedTransactions, refresh, poll, historyVars, matchVars, processVars>>

\* ---- startRequestMonitoring(): the setInterval callback

\* the timer fires: `if (!this.isRunning) return`, then await getTotalRequests()
requestTick ==
    /\ mainPc = "running"
    /\ active = 0
    /\ refresh.pc = "idle"
    /\ isRunning
    /\ refresh' = [IdleRefresh EXCEPT !.pc = "getTotalRequests",
                                      !.from = highExamined]
    /\ UNCHANGED <<contractVars, xrplVars, attestorVars, mainPc, load, poll,
                   active, historyVars, matchVars, processVars>>

\* getTotalRequests() resolved: the loop starts at this.pendingRequests.size
refreshTotal(ok) ==
    /\ active = 0
    /\ refresh.pc = "getTotalRequests"
    /\ LET currentCount == requestIds
           first == Len(pendingRequests)
       IN  refresh' =
             IF ok /\ first < currentCount
             THEN [refresh EXCEPT !.pc = "getRequest", !.i = first,
                                  !.count = currentCount]
             ELSE [refresh EXCEPT !.pc = "done", !.i = first, !.failed = ~ok,
                                  !.count = IF ok THEN currentCount ELSE 0]
    /\ active' = IF refresh'.pc = "done" THEN RefreshTask ELSE 0
    /\ mainPc' = IF ok THEN mainPc ELSE errorCaught(mainPc)
    /\ UNCHANGED <<contractVars, xrplVars, attestorVars, load, poll,
                   historyVars, matchVars, processVars>>

\* one iteration of the callback's loop: getRequest(i) resolved or rejected
refreshRequest(netOk) ==
    /\ active = 0
    /\ refresh.pc = "getRequest"
    /\ LET i == refresh.i
           ok == getRequestAnswers(netOk, i)
       IN  /\ pendingRequests' =
                IF ok THEN cacheIfPending(pendingRequests, i, getRequest(i))
                      ELSE pendingRequests
           /\ highExamined' = Max(highExamined, i)
           /\ refresh' =
                LET n == nextIndex(i, refresh.count, ok)
                IN  [refresh EXCEPT !.pc = IF n < refresh.count THEN @ ELSE "done",
                                    !.i = n,
                                    !.failed = @ \/ ~ok,
                                    !.errors = IF ok THEN @ ELSE @ \cup {i}]
           /\ mainPc' = IF ok THEN mainPc ELSE errorCaught(mainPc)
    /\ active' = IF refresh'.pc = "done" THEN RefreshTask ELSE 0
    /\ UNCHANGED <<contractVars, xrplVars, isRunning, lastProcessedLedger,
                   processedTransactions, load, poll,
                   startLedger, fullyProcessed, submitCount, submitFailed,
                   matchVars, processVars>>

\* the request-monitoring callback returns
refreshDone ==
    /\ active = RefreshTask
    /\ refresh.pc = "done"
    /\ refresh' = IdleRefresh
    /\ active' = 0
    /\ UNCHANGED <<contractVars, xrplVars, attestorVars, mainPc, load, poll,
                   historyVars, matchVars, processVars>>

\* ---- startXRPLMonitoring(): the setInterval callback, checkXRPLTransactions

\* the callback takes the lowest free slot
FreeSlot(s) == poll[s].pc = "idle" /\ \A r \in Slots : r < s => poll[r].pc # "idle"

\* the timer fires: `if (!this.isRunning) return`, then await server_info
xrplTick(s) ==
    /\ mainPc = "running"
    /\ active = 0
    /\ FreeSlot(s)
    /\ isRunning
    /\ poll' = [poll EXCEPT ![s] = [IdlePoll EXCEPT !.pc = "server_info"]]
    /\ UNCHANGED <<contractVars, xrplVars, attestorVars, mainPc, load, refresh,
                   active, historyVars, matchVars, processVars>>

\* the for loop of checkXRPLTransactions moves on from `ledger`: await the
\* next processLedger, or leave the loop and write the watermark
afterLedger(s, p) ==
    IF p.ledger + 1 <= p.currentLedger
    THEN /\ poll' = [poll EXCEPT ![s] =
                [p EXCEPT !.pc = "ledger", !.ledger = p.ledger + 1,
                          !.txs = <<>>, !.it = 0, !.requestId = 0,
                          !.failed = {}, !.skipped = {}]]
         /\ UNCHANGED lastProcessedLedger
    ELSE /\ poll' = [poll EXCEPT ![s] = IdlePoll]
         /\ lastProcessedLedger' = p.currentLedger

\* server_info resolved with the validated sequence `seq`, or rejected (the
\* catch of checkXRPLTransactions ends the callback)
checkXRPLTransactions(s, ok, seq) ==
    /\ active = 0
    /\ poll[s].pc = "server_info"
    /\ seq \in ReportedLedgers
    /\ mainPc' = IF ok THEN mainPc ELSE errorCaught(mainPc)
    /\ IF ~ok
       THEN /\ poll' = [poll EXCEPT ![s] = IdlePoll]
            /\ UNCHANGED lastProcessedLedger
       ELSE IF lastProcessedLedger # 0 /\ seq > lastProcessedLedger
            THEN /\ poll' = [poll EXCEPT ![s] =
                        [IdlePoll EXCEPT !.pc = "ledger", !.currentLedger = seq,
                                         !.ledger = lastProcessedLedger + 1]]
                 /\ UNCHANGED lastProcessedLedger
            ELSE /\ poll' = [poll EXCEPT ![s] = IdlePoll]
                 /\ lastProcessedLedger' = seq
    /\ UNCHANGED <<contractVars, xrplVars, isRunning, pendingRequests,
                   processedTransactions, load, refresh, active,
                   historyVars, matchVars, processVars>>

\* processLedger: the `ledger` request resolved (its transactions are walked
\* next, synchronously) or rejected (caught and logged: the loop of
\* checkXRPLTransactions goes on with the next ledger)
processLedger(s, ok) ==
    /\ active = 0
    /\ poll[s].pc = "ledger"
    /\ IF ok
       THEN /\ poll' = [poll EXCEPT ![s].pc = "tx",
                                    ![s].txs = ledgers[poll[s].ledger]]
            /\ active' = s
            /\ UNCHANGED lastProcessedLedger
       ELSE /\ afterLedger(s, poll[s])
            /\ UNCHANGED active
    /\ mainPc' = IF ok THEN mainPc ELSE errorCaught(mainPc)
    /\ UNCHANGED <<contractVars, xrplVars, isRunning, pendingRequests,
                   processedTransactions, load, refresh, historyVars,
                   matchVars, processVars>>

\* processLedger has walked every transaction of the ledger
ledgerDone(s) ==
    /\ active = s
    /\ poll[s].pc = "tx"
    /\ poll[s].txs = <<>>
    /\ fullyProcessed' = fullyProcessed \cup {poll[s].ledger}
    /\ afterLedger(s, poll[s])
    /\ active' = 0
    /\ UNCHANGED <<contractVars, xrplVars, isRunning, pendingRequests,
                   processedTransactions, mainPc, load, refresh, startLedger,
                   submitCount, submitFailed, highExamined, matchVars, processVars>>

\* alreadyProcessed with the check on processedTransactions left out
alreadyProcessedNever(hash) == FALSE

\* `if (this.processedTransactions.has(tx.hash)) return`
alreadyProcessed(hash) == hash \in processedTransactions

\* processTransaction(tx) up to its first await: a processed hash returns at
\* once; a Payment goes to checkPaymentTransaction; anything else is marked
\* processed
processTransaction(s) ==
    /\ active = s
    /\ poll[s].pc = "tx"
    /\ poll[s].txs # <<>>
    /\ LET tx == Head(poll[s].txs)
       IN  IF alreadyProcessed(tx.hash)
           THEN /\ poll' = [poll EXCEPT ![s].txs = Tail(@),
                                        ![s].skipped = @ \cup {tx}]
                /\ UNCHANGED processedTransactions
           ELSE IF tx.TransactionType = "Payment"
           THEN /\ poll' = [poll EXCEPT ![s].pc = "scan", ![s].it = 0]
                /\ UNCHANGED processedTransactions
           ELSE /\ poll' = [poll EXCEPT ![s].txs = Tail(@)]
                /\ processedTransactions' = processedTransactions \cup {tx.hash}
    /\ UNCHANGED <<contractVars, xrplVars, isRunning, lastProcessedLedger,
                   pendingRequests, mainPc, load, refresh, active, historyVars,
                   matchVars, processVars>>

\* the entries the Map iterator of checkPaymentTransaction still has to
\* visit, as indices, and those among them that match
MatchesAhead(s) ==
    {k \in (poll[s].it + 1)..Len(pendingRequests) :
        matchesRequest(Head(poll[s].txs), pendingRequests[k].request)}

\* checkPaymentTransaction: the for-of loop runs to the next entry that
\* matches and awaits submitAttestation for it; with none left the function
\* returns and processTransaction adds the hash
checkPaymentTransaction(s) ==
    /\ active = s
    /\ poll[s].pc = "scan"
    /\ IF MatchesAhead(s) # {}
       THEN LET k == CHOOSE m \in MatchesAhead(s) : \A n \in MatchesAhead(s) : m <= n
                id == pendingRequests[k].id
            IN  /\ poll' = [poll EXCEPT ![s].pc = "submit", ![s].it = k,
                                        ![s].requestId = id]
                /\ submitCount' = [submitCount EXCEPT ![id] = @ + 1]
                /\ active' = 0
                /\ UNCHANGED processedTransactions
       ELSE /\ poll' = [poll EXCEPT ![s].pc = "tx", ![s].txs = Tail(@),
                                    ![s].it = 0, ![s].requestId = 0,
                                    ![s].failed = {}]
            /\ processedTransactions' =
                    processedTransactions \cup {Head(poll[s].txs).hash}
            /\ UNCHANGED <<submitCount, active>>
    /\ UNCHANGED <<contractVars, xrplVars, isRunning, lastProcessedLedger,
                   pendingRequests, mainPc, load, refresh, startLedger,
                   fullyProcessed, submitFailed, highExamined, matchVars, processVars>>

\* Map.delete under live iterators: an iterator that has passed the deleted
\* entry stands one place earlier
iteratorsAfterDelete(id, after) ==
    IF id \notin Keys(pendingRequests) \/ id \in Keys(after)
    THEN poll
    ELSE [r \in Slots |->
            IF poll[r].pc \in {"scan", "submit"}
               /\ poll[r].it >= IndexOf(pendingRequests, id)
            THEN [poll[r] EXCEPT !.it = @ - 1]
            ELSE poll[r]]

\* what checkPaymentTransaction does with the cache once submitAttestation
\* has returned; submitAttestation catches its own errors, so `ok` never
\* reaches the caller
afterSubmit(m, id, ok) == MapDelete(m, id)

\* submitAttestation: the contract call and tx.wait() resolved (the contract
\* took the attestation) or rejected (a revert or the network); then
\* checkPaymentTransaction deletes the entry and its loop goes on
submitAttestation(s, netOk) ==
    /\ active = 0
    /\ poll[s].pc = "submit"
    /\ LET id == poll[s].requestId
           tx == Head(poll[s].txs)
           ok == netOk /\ attestationAccepted(AttestorAddress, id, tx.Amount, tx.date)
       IN  /\ requests' = IF ok
                          THEN paidRequests(id, tx.hash, tx.Amount, tx.date)
                          ELSE requests
           /\ pendingRequests' = afterSubmit(pendingRequests, id, ok)
           /\ poll' = [iteratorsAfterDelete(id, pendingRequests')
                            EXCEPT ![s].pc = "scan", ![s].requestId = 0,
                                   ![s].failed = IF ok THEN @ ELSE @ \cup {id}]
           /\ submitFailed' = (submitFailed \/ ~ok)
           /\ mainPc' = IF ok THEN mainPc ELSE errorCaught(mainPc)
           /\ active' = s
    /\ UNCHANGED <<requestIds, authorizedAttestors, supportedAssets, now, xrplVars, isRunning,
                   lastProcessedLedger, processedTransactions, load,
                   refresh, startLedger, fullyProcessed, submitCount,
                   highExamined, matchVars, processVars>>

\* ---- stop() and the SIGINT / SIGTERM handlers

\* a signal arrives once the module has run (start() is awaiting): the
\* handler calls stop(), which sets isRunning = false and awaits
\* xrplClient.disconnect(); start() and the callbacks in flight go on meanwhile
stop ==
    /\ active = 0
    /\ shutdown = "none"
    /\ mainPc \notin {"new", "exited", "stopped"}
    /\ isRunning' = FALSE
    /\ shutdown' = "disconnect"
    /\ UNCHANGED <<contractVars, xrplVars, config, lastProcessedLedger,
                   pendingRequests, processedTransactions, controlVars,
                   historyVars, matchVars>>

\* disconnect() resolved: stop() returns and the handler calls
\* process.exit(0), which ends the process with whatever is in flight
signalExit ==
    /\ active = 0
    /\ shutdown = "disconnect"
    /\ mainPc \notin {"exited", "stopped"}
    /\ shutdown' = "exit"
    /\ mainPc' = "stopped"
    /\ active' = Halted
    /\ UNCHANGED <<contractVars, xrplVars, config, attestorVars, load, refresh,
                   poll, historyVars, matchVars>>

\* ------------------------------------------------------------ Spec: the
\* attestor process, the contract's users and the ledger. The event loop runs
\* one callback at a time: nothing else moves while a slot runs synchronously.

\* the request the users of this specification ask for: 5 XRP to rA
SpecRequest == [recipientXRPL |-> "rA", assetAmount |-> 5]

attestorFrame == UNCHANGED <<xrplVars, processVars, attestorVars, controlVars, historyVars, matchVars>>

userCreates ==
    /\ active = 0
    /\ createRequest("alice", SpecRequest.recipientXRPL, "XRP",
                     SpecRequest.assetAmount, MaxTime, 0)
    /\ attestorFrame

\* an attestation sent with the authorized key from outside this process
externalAttestation ==
    /\ active = 0
    /\ \E id \in RequestIdRange :
          submitPaymentAttestation(AttestorAddress, id, "HX",
                                   SpecRequest.assetAmount, now)
    /\ attestorFrame

LedgerContents ==
    {<<>>} \cup {<<t>> : t \in TxPool}
    \cup (IF MaxTxPerLedger >= 2 THEN {<<t, u>> : t \in TxPool, u \in TxPool} ELSE {})

ledgerCloses ==
    /\ active = 0
    /\ \E txs \in LedgerContents : closeLedger(txs)
    /\ UNCHANGED <<contractVars, attestorVars, controlVars, historyVars, matchVars, processVars>>

NoMatch == [none |-> TRUE]

InitContract ==
    /\ requestIds = 0
    /\ supportedAssets = InitialAssets
    /\ requests = [id \in RequestIdRange |-> EmptyRequest]
    /\ now = 0

InitAttestor ==
    /\ validatedLedger = 1
    /\ ledgers = [l \in LedgerRange |-> <<>>]
    /\ isRunning = FALSE
    /\ lastProcessedLedger = 0
    /\ pendingRequests = <<>>
    /\ processedTransactions = {}
    /\ mainPc = "new"
    /\ refresh = IdleRefresh
    /\ poll = [s \in Slots |-> IdlePoll]
    /\ active = 0
    /\ startLedger = 0
    /\ fullyProcessed = {}
    /\ submitCount = [id \in RequestIdRange |-> 0]
    /\ submitFailed = FALSE
    /\ highExamined = 0
    /\ shutdown = "none"

InitMatchIdle ==
    /\ mTx = NoMatch
    /\ mRequest = NoMatch
    /\ mResult = NoMatch

\* the contract as the deploy script leaves it, the attestor constructed,
\* BATCH_SIZE as the environment sets it
Init ==
    /\ InitContract
    /\ authorizedAttestors = {AttestorAddress}
    /\ InitAttestor
    /\ config \in Configs
    /\ load \in {[IdleLoad EXCEPT !.batch = b] : b \in BatchSizes}
    /\ InitMatchIdle

Next ==
    \/ userCreates
    \/ externalAttestation
    \/ ledgerCloses
    \/ start
    \/ \E ok \in BOOLEAN : connected(ok)
    \/ \E ok \in BOOLEAN, seq \in LedgerRange : initializeXRPL(ok, seq)
    \/ \E ok \in BOOLEAN : loadTotal(ok)
    \/ \E ok \in BOOLEAN : loadRequest(ok)
    \/ startMonitoring
    \/ requestTick
    \/ \E ok \in BOOLEAN : refreshTotal(ok)
    \/ \E ok \in BOOLEAN : refreshRequest(ok)
    \/ refreshDone
    \/ \E s \in Slots : xrplTick(s)
    \/ \E s \in Slots, ok \in BOOLEAN, seq \in LedgerRange : checkXRPLTransactions(s, ok, seq)
    \/ \E s \in Slots, ok \in BOOLEAN : processLedger(s, ok)
    \/ \E s \in Slots : ledgerDone(s)
    \/ \E s \in Slots : processTransaction(s)
    \/ \E s \in Slots : checkPaymentTransaction(s)
    \/ \E s \in Slots, ok \in BOOLEAN : submitAttestation(s, ok)

Spec == Init /\ [][Next]_vars

\* ------------------------------------------------------------- SpecStop:
\* the attestor started against a contract that already holds two requests
\* (the first paid, the second pending), the ledger, and the signal handlers.

DeployedRequests ==
    [id \in RequestIdRange |->
        IF id = 1
        THEN [creator |-> "alice", recipientXRPL |-> SpecRequest.recipientXRPL,
              assetSymbol |-> "XRP", assetAmount |-> SpecRequest.assetAmount,
              expiry |-> MaxTime, slippageBp |-> 0, status |-> PAID,
              paidTxHash |-> "HX", paidAmount |-> SpecRequest.assetAmount,
              paidTimestamp |-> 0]
        ELSE IF id = 2
        THEN [creator |-> "alice", recipientXRPL |-> SpecRequest.recipientXRPL,
              assetSymbol |-> "XRP", assetAmount |-> SpecRequest.assetAmount,
              expiry |-> MaxTime, slippageBp |-> 0, status |-> PENDING,
              paidTxHash |-> NoHash, paidAmount |-> 0, paidTimestamp |-> 0]
        ELSE EmptyRequest]

InitDeployed ==
    /\ requestIds = 2
    /\ requests = DeployedRequests
    /\ supportedAssets = InitialAssets
    /\ now = 0
    /\ authorizedAttestors = {AttestorAddress}
    /\ InitAttestor
    /\ config = FullConfig
    /\ load \in {[IdleLoad EXCEPT !.batch = b] : b \in BatchSizes}
    /\ InitMatchIdle

\* the steps of the attestor process, every network call answering or failing
AttestorNext ==
    \/ start
    \/ \E ok \in BOOLEAN : connected(ok)
    \/ \E ok \in BOOLEAN, seq \in LedgerRange : initializeXRPL(ok, seq)
    \/ \E ok \in BOOLEAN : loadTotal(ok)
    \/ \E ok \in BOOLEAN : loadRequest(ok)
    \/ startMonitoring
    \/ requestTick
    \/ \E ok \in BOOLEAN : refreshTotal(ok)
    \/ \E ok \in BOOLEAN : refreshRequest(ok)
    \/ refreshDone
    \/ \E s \in Slots : xrplTick(s)
    \/ \E s \in Slots, ok \in BOOLEAN, seq \in LedgerRange : checkXRPLTransactions(s, ok, seq)
    \/ \E s \in Slots, ok \in BOOLEAN : processLedger(s, ok)
    \/ \E s \in Slots : ledgerDone(s)
    \/ \E s \in Slots : processTransaction(s)
    \/ \E s \in Slots : checkPaymentTransaction(s)
    \/ \E s \in Slots, ok \in BOOLEAN : submitAttestation(s, ok)

NextStop ==
    \/ ledgerCloses
    \/ AttestorNext
    \/ stop
    \/ signalExit

SpecStop == InitDeployed /\ [][NextStop]_vars

\* ------------------------------------------------------------- SpecLive:
\* the attestor against the deployed contract and the ledger with no network
\* call failing (a call the contract reverts still fails), both timers
\* firing again and again and every awaited answer arriving.

NextLive ==
    \/ ledgerCloses
    \/ start
    \/ connected(TRUE)
    \/ \E seq \in LedgerRange : initializeXRPL(TRUE, seq)
    \/ loadTotal(TRUE)
    \/ loadRequest(TRUE)
    \/ startMonitoring
    \/ requestTick
    \/ refreshTotal(TRUE)
    \/ refreshRequest(TRUE)
    \/ refreshDone
    \/ \E s \in Slots : xrplTick(s)
    \/ \E s \in Slots, seq \in LedgerRange : checkXRPLTransactions(s, TRUE, seq)
    \/ \E s \in Slots : processLedger(s, TRUE)
    \/ \E s \in Slots : ledgerDone(s)
    \/ \E s \in Slots : processTransaction(s)
    \/ \E s \in Slots : checkPaymentTransaction(s)
    \/ \E s \in Slots : submitAttestation(s, TRUE)

\* setInterval fires both timers for as long as the process lives, and the
\* event loop resumes every callback whose awaited call has answered. A
\* callback cannot run while another one runs synchronously, so each is
\* enabled again and again rather than continuously: the event loop serves
\* its queues in turn and starves none, which is strong fairness.
\* The steps of one sequential task are enabled one at a time, so fairness
\* is stated per task: start(), the request-monitoring timer with its
\* callback, the ledger-poll timer, and each ledger-poll callback in flight.
MainSteps ==
    \/ start
    \/ connected(TRUE)
    \/ \E seq \in LedgerRange : initializeXRPL(TRUE, seq)
    \/ loadTotal(TRUE)
    \/ loadRequest(TRUE)
    \/ startMonitoring

RefreshSteps ==
    \/ requestTick
    \/ refreshTotal(TRUE)
    \/ refreshRequest(TRUE)
    \/ refreshDone

PollSteps(s) ==
    \/ \E seq \in LedgerRange : checkXRPLTransactions(s, TRUE, seq)
    \/ processLedger(s, TRUE)
    \/ ledgerDone(s)
    \/ processTransaction(s)
    \/ checkPaymentTransaction(s)
    \/ submitAttestation(s, TRUE)

FairLive ==
    /\ WF_vars(MainSteps)
    /\ SF_vars(RefreshSteps)
    /\ SF_vars(\E s \in Slots : xrplTick(s))
    /\ \A s \in Slots : SF_vars(PollSteps(s))

SpecLive == InitDeployed /\ [][NextLive]_vars /\ FairLive

\* ---------------------------------------------------------- SpecContract:
\* the contract alone, from its constructor on, called by any sender with
\* arguments good and bad; the attestor process is not started.

CallIds == 0..MaxRequests
CallRecipients == {"", "rA"}
CallSymbols == {"XRP", "USDT", "DOGE"}
CallAmounts == {0, 5}
CallExpiries == {0, 1, MaxTime}
CallSlippages == {0, MaxSlippageBp, MaxSlippageBp + 1}
\* the proofs attestors send: a hash with the amount it paid
CallProofs == {<<"H1", 5>>, <<"H2", 4>>, <<"H3", 9>>}
CallAttestors == {AttestorAddress, "mallory"}

callCreateRequest ==
    /\ \E sender \in Users, recipient \in CallRecipients, symbol \in CallSymbols,
          amount \in CallAmounts, expiry \in CallExpiries, slip \in CallSlippages :
          createRequest(sender, recipient, symbol, amount, expiry, slip)
    /\ attestorFrame

callSubmitPaymentAttestation ==
    /\ \E sender \in Senders, id \in CallIds, proof \in CallProofs,
          timestamp \in {now, now + 1} :
          submitPaymentAttestation(sender, id, proof[1], proof[2], timestamp)
    /\ attestorFrame

callCancelRequest ==
    /\ \E sender \in Senders, id \in CallIds : cancelRequest(sender, id)
    /\ attestorFrame

callMarkExpired ==
    /\ \E sender \in Senders, id \in CallIds : markExpired(sender, id)
    /\ attestorFrame

callAddAuthorizedAttestor ==
    /\ \E sender \in Senders, attestor \in CallAttestors :
          /\ attestor \notin authorizedAttestors
          /\ addAuthorizedAttestor(sender, attestor)
    /\ attestorFrame

callRemoveAuthorizedAttestor ==
    /\ \E sender \in Senders, attestor \in CallAttestors :
          /\ attestor \in authorizedAttestors
          /\ removeAuthorizedAttestor(sender, attestor)
    /\ attestorFrame

nextBlock ==
    /\ mineBlock
    /\ attestorFrame

InitContractSpec ==
    /\ InitContract
    /\ authorizedAttestors = {}
    /\ InitAttestor
    /\ config = FullConfig
    /\ load = [IdleLoad EXCEPT !.batch = DefaultBatchSize]
    /\ InitMatchIdle

NextContract ==
    \/ callCreateRequest
    \/ callSubmitPaymentAttestation
    \/ callCancelRequest
    \/ callMarkExpired
    \/ callAddAuthorizedAttestor
    \/ callRemoveAuthorizedAttestor
    \/ nextBlock

SpecContract == InitContractSpec /\ [][NextContract]_vars

\* ----------------------------------------------------- SpecContractAdmin:
\* the contract alone as in SpecContract, with the owner-gated asset
\* functions called as well: an asset the constructor did not register is
\* added, a registered one is removed.

AdminSymbols == {"DOGE", "USDT"}

callAddSupportedAsset ==
    /\ \E sender \in Senders, symbol \in AdminSymbols :
          /\ symbol \notin supportedAssets
          /\ addSupportedAsset(sender, symbol)
    /\ attestorFrame

callRemoveSupportedAsset ==
    /\ \E sender \in Senders, symbol \in AdminSymbols :
          /\ symbol \in supportedAssets
          /\ removeSupportedAsset(sender, symbol)
    /\ attestorFrame

NextContractAdmin ==
    \/ NextContract
    \/ callAddSupportedAsset
    \/ callRemoveSupportedAsset

SpecContractAdmin == InitContractSpec /\ [][NextContractAdmin]_vars

\* ------------------------------------------------------------- SpecMatch:
\* matchesRequest on a drawn transaction and a drawn cached request. Amounts
\* are in hundredths of an XRP: 100000 is 1,000.00 XRP.

MatchAmounts == {98999, 99000, 99999, 100000, 100001}
MatchTxs ==
    [hash : {"H1"}, TransactionType : {"Payment"}, Destination : {"rA", "rB"},
     Amount : MatchAmounts, date : {0}, DestinationTag : {0}]
MatchRequests ==
    [creator : {"alice"}, recipientXRPL : {"rA", "rB"}, assetSymbol : {"XRP"},
     assetAmount : {99000, 100000}, expiry : {1}, slippageBp : {0, 100, 1000},
     status : {PENDING}, paidTxHash : {NoHash}, paidAmount : {0},
     paidTimestamp : {0}]

InitMatch ==
    /\ InitContract
    /\ authorizedAttestors = {AttestorAddress}
    /\ InitAttestor
    /\ config = FullConfig
    /\ load = [IdleLoad EXCEPT !.batch = DefaultBatchSize]
    /\ mTx \in MatchTxs
    /\ mRequest \in MatchRequests
    /\ mResult = NoMatch

\* the matcher is asked about the transaction and the request
evaluateMatch ==
    /\ mResult = NoMatch
    /\ mResult' = [matches |-> matchesRequest(mTx, mRequest)]
    /\ UNCHANGED <<contractVars, xrplVars, processVars, attestorVars, controlVars,
                   historyVars, mTx, mRequest>>

NextMatch == evaluateMatch

SpecMatch == InitMatch /\ [][NextMatch]_vars

\* ================================================================ claims

\* C1: when the chain call of submitAttestation fails for a matched request,
\* the request is still in pendingRequests once checkPaymentTransaction has
\* returned, and an entry leaves pendingRequests only in the step that ends a
\* submission the contract accepted.
C1_FailedSubmissionKeepsRequest ==
    [][ /\ \A s \in Slots :
            (poll[s].pc = "scan" /\ poll'[s].pc = "tx")
                => poll[s].failed \subseteq Keys(pendingRequests')
        /\ \A id \in Keys(pendingRequests) \ Keys(pendingRequests') :
            \E s \in Slots :
                /\ poll[s].pc = "submit"
                /\ poll[s].requestId = id
                /\ id \notin poll'[s].failed ]_vars

\* C2: processTransaction called with a hash that is in processedTransactions
\* returns at once: it does not enter checkPaymentTransaction, starts no
\* submitAttestation, and leaves pendingRequests, processedTransactions and
\* the contract as they are.
C2_ReprocessingIsNoOp ==
    [][ \A s \in Slots :
            ( /\ active = s
              /\ poll[s].pc = "tx"
              /\ poll[s].txs # <<>>
              /\ Head(poll[s].txs).hash \in processedTransactions )
            => /\ poll'[s].pc = "tx"
               /\ poll'[s].txs = Tail(poll[s].txs)
               /\ pendingRequests' = pendingRequests
               /\ processedTransactions' = processedTransactions
               /\ submitCount' = submitCount
               /\ requests' = requests ]_vars

\* C2 witness: a ledger walk (the ledger was fetched a second time) has met a
\* Payment whose hash was in processedTransactions and passed it, while the
\* cache held a request the payment matches
C2_Witness ==
    \E s \in Slots : \E tx \in poll[s].skipped :
        /\ tx.hash \in processedTransactions
        /\ tx.TransactionType = "Payment"
        /\ \E k \in 1..Len(pendingRequests) :
              matchesRequest(tx, pendingRequests[k].request)

\* C3: no two submitAttestation calls for one request identifier are in
\* flight at once, and while no submission has failed no identifier has had
\* more than one submitAttestation call.
C3_OneSubmissionPerRequest ==
    /\ \A s, t \in Slots :
          (s # t /\ poll[s].pc = "submit" /\ poll[t].pc = "submit")
              => poll[s].requestId # poll[t].requestId
    /\ ~submitFailed => \A id \in RequestIdRange : submitCount[id] <= 1

\* C4: lastProcessedLedger never decreases.
C4_WatermarkMonotonic ==
    [][lastProcessedLedger' >= lastProcessedLedger]_vars

\* C5: every ledger between the starting watermark (exclusive) and
\* lastProcessedLedger (inclusive) was fetched and all its transactions were
\* passed to processTransaction.
C5_WatermarkCoversProcessedLedgers ==
    \A l \in LedgerRange :
        (startLedger < l /\ l <= lastProcessedLedger) => l \in fullyProcessed

\* C6: a request's status changes only from PENDING, and then to PAID,
\* CANCELLED or EXPIRED; a PAID, CANCELLED or EXPIRED request keeps its status
\* whatever is called by whom.
C6_StatusOneWay ==
    [][ \A id \in RequestIdRange :
            requests'[id].status # requests[id].status
                => /\ requests[id].status = PENDING
                   /\ requests'[id].status \in {PAID, CANCELLED, EXPIRED} ]_vars

\* C6 witness: a cancelled request that an authorized attestor could still pay
\* as far as expiry, sender and amount go, beside a request that was paid
C6_Witness ==
    \E i, j \in RequestIdRange :
        /\ requests[i].status = CANCELLED
        /\ now <= requests[i].expiry
        /\ AttestorAddress \in authorizedAttestors
        /\ requests[j].status = PAID

\* C7: every entry of pendingRequests was PENDING on the contract when it was
\* fetched (the cached copy is the record as fetched).
C7_CacheHoldsOnlyPending ==
    \A k \in 1..Len(pendingRequests) : pendingRequests[k].request.status = PENDING

\* C8: when loadPendingRequests has completed without a failed read, having
\* read a total of N requests, every PENDING request among the min(batchSize,
\* N) highest identifiers, N included, is a key of pendingRequests.
C8_LoadCoversMostRecent ==
    (mainPc = "loaded" /\ ~load.failed)
        => \A id \in RequestIdRange :
              ( /\ load.end - Min(load.batch, load.end) < id
                /\ id <= load.end
                /\ requests[id].status = PENDING )
              => id \in Keys(pendingRequests)

\* C9: when a request-monitoring tick has completed without a failed read,
\* every PENDING request with an identifier beyond the highest one examined
\* before the tick, up to the total the tick read, is a key of
\* pendingRequests.
C9_RefreshPicksUpNewRequests ==
    (refresh.pc = "done" /\ ~refresh.failed)
        => \A id \in RequestIdRange :
              ( /\ refresh.from < id
                /\ id <= refresh.count
                /\ requests[id].status = PENDING )
              => id \in Keys(pendingRequests)

\* C10: matchesRequest(tx, request) is true exactly for a payment to the
\* request's recipient address of at least
\* requiredXRP * (10000 - slippageBp) / 10000.
C10_MatchWithinSlippage ==
    mResult # NoMatch
        => ( mResult.matches
             <=> ( /\ mTx.Destination = mRequest.recipientXRPL
                   /\ mTx.Amount >= minAcceptableAmount(mRequest) ) )


\* C11: a submitAttestation call for request R with payment tx is made only
\* when tx carries a destination tag equal to R's identifier.
C11_AttestsOnlyTaggedPayments ==
    \A s \in Slots :
        poll[s].pc = "submit"
            => Head(poll[s].txs).DestinationTag = poll[s].requestId


\* C19: submitPaymentAttestation never pays a request once block.timestamp is
\* past its expiry, whether markExpired was called or not: a step taken
\* after expiry leaves the request unpaid and its proof fields as they are,
\* and every request that becomes PAID does so at a block time <= its expiry.
C19_ExpiredNeverPaid ==
    [][ \A id \in RequestIdRange :
          /\ (requests'[id].status = PAID /\ requests[id].status # PAID)
                => /\ now <= requests[id].expiry
                   /\ requests'[id].paidTimestamp <= requests[id].expiry
          /\ (requests[id].creator # ZeroAddress /\ now > requests[id].expiry)
                => /\ requests'[id].status = PAID <=> requests[id].status = PAID
                   /\ requests'[id].paidTxHash = requests[id].paidTxHash
                   /\ requests'[id].paidAmount = requests[id].paidAmount
                   /\ requests'[id].paidTimestamp = requests[id].paidTimestamp ]_vars

\* C19 witness: the attestor is authorized and a PENDING request is past its
\* expiry with no markExpired call made for it and an amount on offer that
\* would suffice, beside a request that was paid in time
C19_Witness ==
    /\ AttestorAddress \in authorizedAttestors
    /\ \E i, j \in RequestIdRange :
          /\ requests[i].status = PENDING
          /\ requests[i].creator # ZeroAddress
          /\ now > requests[i].expiry
          /\ 5 >= minAcceptableAmount(requests[i])
          /\ requests[j].status = PAID
          /\ requests[j].paidTimestamp <= requests[j].expiry

\* C20: a request becomes PAID only with an attested amount of at least
\* floor(calculateXRPAmount(assetSymbol, assetAmount) * (10000 - slippageBp)
\* / 10000), and a request that is PENDING has empty paid-proof fields.
C20_InsufficientPaymentRejected ==
    [][ \A id \in RequestIdRange :
          /\ (requests'[id].status = PAID /\ requests[id].status # PAID)
                => requests'[id].paidAmount >= minAcceptableAmount(requests[id])
          /\ requests'[id].status = PENDING
                => /\ requests'[id].paidTxHash = NoHash
                   /\ requests'[id].paidAmount = 0
                   /\ requests'[id].paidTimestamp = 0 ]_vars

\* C20 witness: a request paid with less than its required XRP amount yet
\* within its slippage (the floor of the minimum), beside an unexpired
\* PENDING request of a converted asset whose minimum exceeds every amount
\* but one the attestors send, with the attestor authorized
C20_Witness ==
    /\ AttestorAddress \in authorizedAttestors
    /\ \E i, j \in RequestIdRange :
          /\ requests[i].status = PAID
          /\ requests[i].paidAmount
                < calculateXRPAmount(requests[i].assetSymbol, requests[i].assetAmount)
          /\ requests[i].paidAmount = minAcceptableAmount(requests[i])
          /\ requests[j].status = PENDING
          /\ requests[j].assetSymbol = "USDT"
          /\ now <= requests[j].expiry
          /\ minAcceptableAmount(requests[j]) > 5


\* C13: with ATTESTOR_PRIVATE_KEY or REQUEST_MANAGER_ADDRESS not set,
\* isRunning is never true, neither periodic task ever runs, no contract read
\* is made, and once initializeXRPL has returned the process has exited with
\* code 1.
C13_MissingConfigIsFatal ==
    (~config.privateKey \/ ~config.requestManagerAddress)
        => /\ ~isRunning
           /\ refresh.pc = "idle"
           /\ \A s \in Slots : poll[s].pc = "idle"
           /\ mainPc \in {"new", "connect", "server_info", "exited"}
           /\ lastProcessedLedger # 0 => exitCode = 1

\* C13 witness: a setting is missing, the ledger connection was made and the
\* watermark recorded, and the process has exited with code 1
C13_Witness ==
    /\ ~config.privateKey \/ ~config.requestManagerAddress
    /\ lastProcessedLedger # 0
    /\ exitCode = 1

\* C14: no step of a timer callback, failed or not, ends the process or
\* stops the timers while isRunning stays true: the process that is running
\* is running after the step, and then both timers can fire and do their work
\* whenever the event loop is idle.
C14_TickFailureDoesNotHalt ==
    /\ [][ (mainPc = "running" /\ isRunning /\ isRunning')
                => mainPc' = "running" ]_vars
    /\ [] ( (mainPc = "running" /\ isRunning /\ active = 0)
                => /\ refresh.pc = "idle" => ENABLED requestTick
                   /\ (\E s \in Slots : poll[s].pc = "idle")
                        => ENABLED (\E s \in Slots : xrplTick(s)) )

\* C14 witness: a ledger fetch failed in a tick that has ended (the watermark
\* covers a ledger no tick walked) and a submission failed, and a later tick
\* is walking the ledger after the watermark
C14_Witness ==
    /\ isRunning
    /\ submitFailed
    /\ \E l \in LedgerRange :
          /\ startLedger < l
          /\ l <= lastProcessedLedger
          /\ l \notin fullyProcessed
    /\ \E s \in Slots :
          /\ poll[s].pc = "tx"
          /\ poll[s].ledger = lastProcessedLedger + 1

\* C15: in loadPendingRequests and in a refresh tick every step of the loop,
\* after failed reads as before them, moves on to the next identifier without
\* ending the loop early, and an identifier whose read succeeds is in
\* pendingRequests afterwards exactly if it was there or passes the status
\* test of the loop.
C15_FailedReadIsIsolated ==
    [][ /\ (mainPc = "getRequest" /\ load' # load)
            => /\ load'.i = load.i + 1
               /\ mainPc' = IF load'.i < load.end THEN "getRequest" ELSE "loaded"
               /\ load.i \notin load'.errors
                    => Keys(pendingRequests') =
                          Keys(pendingRequests)
                            \cup (IF requestAt(load.i).status = 1 THEN {load.i} ELSE {})
        /\ (refresh.pc = "getRequest" /\ refresh' # refresh)
            => /\ refresh'.i = refresh.i + 1
               /\ refresh'.pc = IF refresh'.i < refresh.count THEN "getRequest" ELSE "done"
               /\ refresh.i \notin refresh'.errors
                    => Keys(pendingRequests') =
                          Keys(pendingRequests)
                            \cup (IF requestAt(refresh.i).status = 1 THEN {refresh.i} ELSE {})
      ]_vars

\* C15 witness: loadPendingRequests has completed, the read of one identifier
\* failed, and a later identifier of the range was read and inserted
C15_Witness ==
    /\ mainPc = "loaded"
    /\ \E e \in load.errors : \E id \in Keys(pendingRequests) : e < id

\* C16: a ledger index is passed to processLedger only while no other
\* processLedger call is in progress, it is higher than every ledger walked
\* before, and a tick starts with lastProcessedLedger + 1 and goes on one
\* ledger at a time.
C16_LedgersInOrder ==
    [][ \A s \in Slots :
          ( /\ poll'[s].pc = "ledger"
            /\ poll[s].pc # "ledger" \/ poll[s].ledger # poll'[s].ledger )
          => /\ \A t \in Slots \ {s} :
                    poll[t].pc \notin {"ledger", "tx", "scan", "submit"}
             /\ \A l \in fullyProcessed : l < poll'[s].ledger
             /\ poll'[s].ledger =
                    IF poll[s].pc = "server_info" THEN lastProcessedLedger + 1
                                                  ELSE poll[s].ledger + 1 ]_vars

\* C18: a step of the refresh loop never reads an identifier that is
\* already a key of pendingRequests, removes no entry and changes no entry.
C18_RefreshLeavesCachedAlone ==
    [][ (refresh.pc = "getRequest" /\ refresh' # refresh)
            => /\ refresh.i \notin Keys(pendingRequests)
               /\ \A k \in 1..Len(pendingRequests) :
                     /\ k <= Len(pendingRequests')
                     /\ pendingRequests'[k] = pendingRequests[k] ]_vars


\* C17: once stop() has set isRunning to false no timer tick starts its work
\* (no chain read, no ledger query), and the process ends only when no tick
\* is in flight: a tick in flight when stop() is called runs to its end.
C17_CooperativeStop ==
    [][ /\ shutdown # "none"
            => /\ \A s \in Slots : poll[s].pc = "idle" => poll'[s].pc = "idle"
               /\ refresh.pc = "idle" => refresh'.pc = "idle"
        /\ (shutdown # "exit" /\ shutdown' = "exit")
            => /\ \A s \in Slots : poll[s].pc = "idle"
               /\ refresh.pc = "idle" ]_vars


\* C12: whenever a request is PENDING and unexpired and a validated ledger
\* after the attestor's starting watermark carries a Payment to its recipient
\* for the required XRP amount, the contract eventually records the request
\* as PAID with that payment's hash.
C12_PaymentIsEventuallyAttested ==
    \A id \in RequestIdRange : \A tx \in TxPool :
        ( /\ requests[id].status = PENDING
          /\ requests[id].creator # ZeroAddress
          /\ now <= requests[id].expiry
          /\ startLedger # 0
          /\ tx.TransactionType = "Payment"
          /\ tx.Destination = requests[id].recipientXRPL
          /\ tx.Amount = calculateXRPAmount(requests[id].assetSymbol,
                                            requests[id].assetAmount)
          /\ \E l \in LedgerRange :
                /\ startLedger < l
                /\ l <= validatedLedger
                /\ tx \in SeqToSet(ledgers[l]) )
        ~> ( /\ requests[id].status = PAID
             /\ requests[id].paidTxHash = tx.hash )


\* C21: a request whose status is not PAID has paidTxHash, paidAmount and
\* paidTimestamp zero; a request becomes PAID only in a step in which an
\* authorized sender's submitPaymentAttestation is accepted, and then its three
\* proof fields are that call's arguments; the proof fields of a PAID request
\* never change.
C21_ProofOnlyOnPayment ==
    /\ [] (\A id \in RequestIdRange :
              requests[id].status # PAID
                  => /\ requests[id].paidTxHash = NoHash
                     /\ requests[id].paidAmount = 0
                     /\ requests[id].paidTimestamp = 0)
    /\ [][ \A id \in RequestIdRange :
            /\ (requests[id].status # PAID /\ requests'[id].status = PAID)
                  => \E sender \in Senders, proof \in CallProofs, timestamp \in 0..(MaxTime + 1) :
                        /\ attestationAccepted(sender, id, proof[2], timestamp)
                        /\ requests'[id].paidTxHash = proof[1]
                        /\ requests'[id].paidAmount = proof[2]
                        /\ requests'[id].paidTimestamp = timestamp
            /\ requests[id].status = PAID
                  => /\ requests'[id].paidTxHash = requests[id].paidTxHash
                     /\ requests'[id].paidAmount = requests[id].paidAmount
                     /\ requests'[id].paidTimestamp = requests[id].paidTimestamp ]_vars

\* C21 witness: a request paid at a block time after 0 carries the hash, the
\* amount and the timestamp of its attestation, a later block has been mined,
\* and a request that was cancelled or marked expired has no proof
C21_Witness ==
    \E i, j \in RequestIdRange :
        /\ requests[i].status = PAID
        /\ requests[i].paidTxHash = "H1"
        /\ requests[i].paidAmount = 5
        /\ requests[i].paidTimestamp = 1
        /\ now > 1
        /\ requests[j].status \in {CANCELLED, EXPIRED}
        /\ requests[j].paidTxHash = NoHash


\* C22: the records the contract holds are those of the identifiers
\* 1..getTotalRequests, so getTotalRequests counts the createRequest calls
\* that succeeded; a step changes the counter only by adding one, and then it
\* writes the record of the new identifier into a slot that was empty and
\* leaves every other record as it is; a step that creates no record leaves
\* the counter as it is.
C22_IdentifiersSequential ==
    /\ [] ( /\ \A id \in RequestIdRange :
                  requests[id].creator # ZeroAddress <=> id <= getTotalRequests
            /\ getTotalRequests =
                  Cardinality({id \in RequestIdRange : requests[id].creator # ZeroAddress}) )
    /\ [][ /\ requestIds' # requestIds
              => /\ requestIds' = requestIds + 1
                 /\ requests[requestIds'].creator = ZeroAddress
                 /\ requests'[requestIds'].creator # ZeroAddress
                 /\ \A id \in RequestIdRange \ {requestIds'} :
                        requests'[id] = requests[id]
          /\ (\E id \in RequestIdRange :
                  requests[id].creator = ZeroAddress /\ requests'[id].creator # ZeroAddress)
              => requestIds' = requestIds + 1 ]_vars

\* C22 witness: two createRequest calls have succeeded, by different senders,
\* the first record has left PENDING and kept its creator, and the counter
\* reads two
C22_Witness ==
    /\ getTotalRequests = 2
    /\ requests[1].creator = "alice"
    /\ requests[1].status = PAID
    /\ requests[2].creator = "bob"
    /\ requests[2].status = PENDING


\* C23: a submitPaymentAttestation call of a sender that is not in
\* authorizedAttestors reverts, whatever its arguments, and so does an
\* addAuthorizedAttestor or removeAuthorizedAttestor call of a sender that is
\* not the owner; a request becomes PAID only in a step in which the call of
\* a sender in authorizedAttestors is accepted; authorizedAttestors changes
\* only by one address added or removed, in a step that changes no request.
C23_OnlyAuthorizedAttestorPays ==
    /\ [] ( /\ \A sender \in Senders \ authorizedAttestors :
                 \A id \in CallIds, proof \in CallProofs, timestamp \in {now, now + 1} :
                    ~ENABLED ( /\ submitPaymentAttestation(sender, id, proof[1],
                                                           proof[2], timestamp)
                               /\ attestorFrame )
            /\ \A sender \in Senders \ {Owner} : \A attestor \in CallAttestors :
                    /\ ~ENABLED (addAuthorizedAttestor(sender, attestor) /\ attestorFrame)
                    /\ ~ENABLED (removeAuthorizedAttestor(sender, attestor) /\ attestorFrame) )
    /\ [][ /\ \A id \in RequestIdRange :
                (requests[id].status # PAID /\ requests'[id].status = PAID)
                    => \E sender \in authorizedAttestors :
                          attestationAccepted(sender, id, requests'[id].paidAmount,
                                              requests'[id].paidTimestamp)
          /\ authorizedAttestors' # authorizedAttestors
                => /\ \E attestor \in CallAttestors :
                        \/ authorizedAttestors' = authorizedAttestors \cup {attestor}
                        \/ authorizedAttestors' = authorizedAttestors \ {attestor}
                   /\ requests' = requests
                   /\ requestIds' = requestIds ]_vars

\* C23 witness: an attestor paid a request and was removed afterwards (no
\* address is authorized any more), and a PENDING request is unexpired with
\* an amount on offer that would pay it
C23_Witness ==
    /\ authorizedAttestors = {}
    /\ \E i, j \in RequestIdRange :
          /\ requests[i].status = PAID
          /\ requests[j].status = PENDING
          /\ requests[j].creator # ZeroAddress
          /\ now <= requests[j].expiry
          /\ 5 >= minAcceptableAmount(requests[j])


\* C24: a cancelRequest call goes through exactly when the identifier is one
\* the contract has assigned, the sender is the request's creator and the
\* status is PENDING, whether the expiry has passed or not; every other call
\* reverts. The step that cancels a request changes its status alone and no
\* other request.
C24_CancelOnlyByCreatorWhilePending ==
    /\ [] (\A sender \in Senders, id \in CallIds :
              ENABLED (cancelRequest(sender, id) /\ attestorFrame)
                  <=> ( /\ id \in 1..requestIds
                        /\ requests[id].creator = sender
                        /\ requests[id].status = PENDING ))
    /\ [][ \A id \in RequestIdRange :
              (requests[id].status # CANCELLED /\ requests'[id].status = CANCELLED)
                  => /\ requests[id].status = PENDING
                     /\ requests[id].creator \in Users
                     /\ requests' = [requests EXCEPT ![id].status = CANCELLED]
                     /\ requestIds' = requestIds
                     /\ authorizedAttestors' = authorizedAttestors
                     /\ supportedAssets' = supportedAssets ]_vars

\* C24 witness: one request was cancelled; another is PENDING with its expiry
\* passed, its creator's cancelRequest call goes through and the call of
\* another user does not
C24_Witness ==
    \E i, j \in RequestIdRange :
        /\ requests[i].status = CANCELLED
        /\ requests[j].status = PENDING
        /\ requests[j].creator = "alice"
        /\ now > requests[j].expiry
        /\ ENABLED (cancelRequest("alice", j) /\ attestorFrame)
        /\ ~ENABLED (cancelRequest("bob", j) /\ attestorFrame)


\* C25: a markExpired call, of any sender, goes through exactly when the
\* identifier is assigned, the request is PENDING and block.timestamp is
\* greater than its expiry, and then it changes that request's status alone;
\* every EXPIRED request has its expiry behind the block time, and a request
\* becomes PAID only at a block time that is not past its expiry.
C25_ExpiredOnlyAfterExpiry ==
    /\ [] ( /\ \A sender \in Senders, id \in CallIds :
                  ENABLED (markExpired(sender, id) /\ attestorFrame)
                      <=> ( /\ id \in 1..requestIds
                            /\ requests[id].status = PENDING
                            /\ now > requests[id].expiry )
            /\ \A id \in RequestIdRange :
                  /\ requests[id].status = EXPIRED => now > requests[id].expiry
                  /\ requests[id].status = PAID
                        => requests[id].paidTimestamp <= requests[id].expiry )
    /\ [][ /\ now' >= now
          /\ \A id \in RequestIdRange :
              /\ (requests[id].status # EXPIRED /\ requests'[id].status = EXPIRED)
                    => /\ requests[id].status = PENDING
                       /\ now > requests[id].expiry
                       /\ requests' = [requests EXCEPT ![id].status = EXPIRED]
              /\ (requests[id].status # PAID /\ requests'[id].status = PAID)
                    => now <= requests[id].expiry ]_vars

\* C25 witness: a request was marked EXPIRED, and a request that was paid in
\* time is PAID with the block time now past its expiry
C25_Witness ==
    \E i, j \in RequestIdRange :
        /\ requests[i].status = EXPIRED
        /\ requests[j].status = PAID
        /\ now > requests[j].expiry


\* C26: every request the contract stores has slippageBp <= 1000,
\* assetAmount > 0 and a non-empty recipient address; the step that creates a
\* record creates it PENDING and without proof, with an asset symbol that is
\* supported and an expiry greater than the block time of that step, and
\* changes no other record; a createRequest call that violates one of the
\* five conditions reverts.
C26_StoredRequestsAreValid ==
    /\ [] ( /\ \A id \in RequestIdRange :
                  requests[id].creator # ZeroAddress
                      => /\ requests[id].slippageBp <= MaxSlippageBp
                         /\ requests[id].assetAmount > 0
                         /\ requests[id].recipientXRPL # ""
                         /\ requests[id].expiry > 0
            /\ \A sender \in Users, recipient \in CallRecipients,
                  symbol \in CallSymbols, amount \in CallAmounts,
                  expiry \in CallExpiries, slip \in CallSlippages :
                  ( \/ recipient = ""
                    \/ symbol \notin supportedAssets
                    \/ amount <= 0
                    \/ expiry <= now
                    \/ slip > 1000 )
                  => ~ENABLED ( /\ createRequest(sender, recipient, symbol,
                                                  amount, expiry, slip)
                                /\ attestorFrame ) )
    /\ [][ \A id \in RequestIdRange :
              (requests[id].creator = ZeroAddress /\ requests'[id].creator # ZeroAddress)
                  => /\ requests'[id].status = PENDING
                     /\ requests'[id].paidTxHash = NoHash
                     /\ requests'[id].paidAmount = 0
                     /\ requests'[id].paidTimestamp = 0
                     /\ requests'[id].assetSymbol \in supportedAssets
                     /\ requests'[id].expiry > now
                     /\ \A other \in RequestIdRange \ {id} :
                            requests'[other] = requests[other] ]_vars

\* C26 witness: a stored request names an asset the owner added after
\* deployment, and another, created with the highest slippage allowed, names
\* an asset the owner has removed since
C26_Witness ==
    \E i, j \in RequestIdRange :
        /\ requests[i].assetSymbol = "DOGE"
        /\ requests[j].assetSymbol = "USDT"
        /\ requests[j].slippageBp = MaxSlippageBp
        /\ "USDT" \notin supportedAssets


\* C27: while the attestor submits an attestation for a payment, the
\* checkPaymentTransaction call it is in has submitted that payment for no
\* other request identifier, and no two PAID requests carry the same
\* paidTxHash.
C27_OnePaymentOneRequest ==
    /\ \A s \in Slots :
          poll[s].pc = "submit" => poll[s].failed \subseteq {poll[s].requestId}
    /\ \A i, j \in RequestIdRange :
          (i # j /\ requests[i].status = PAID /\ requests[j].status = PAID)
              => requests[i].paidTxHash # requests[j].paidTxHash


\* C28: an identifier that checkPaymentTransaction has removed from
\* pendingRequests after a submission is never a key of pendingRequests
\* again, and no submitAttestation call is started for a request the contract
\* records as PAID.
C28_EvictionIsFinal ==
    [][ \A id \in RequestIdRange :
          /\ (submitCount[id] >= 1 /\ id \notin Keys(pendingRequests))
                => id \notin Keys(pendingRequests')
          /\ submitCount'[id] > submitCount[id]
                => requests[id].status # PAID ]_vars


\* C29: at most one ledger-poll callback is between its read of
\* lastProcessedLedger and its write of it, and a callback passes a ledger
\* index to processLedger only if no other callback has walked that ledger
\* or is working on it.
C29_PollTicksDoNotOverlap ==
    /\ [] (Cardinality({s \in Slots :
                poll[s].pc \in {"ledger", "tx", "scan", "submit"}}) <= 1)
    /\ [][ \A s \in Slots :
              ( /\ poll'[s].pc = "ledger"
                /\ poll[s].pc # "ledger" \/ poll[s].ledger # poll'[s].ledger )
              => /\ poll'[s].ledger \notin fullyProcessed
                 /\ \A t \in Slots \ {s} :
                        poll[t].pc \in {"ledger", "tx", "scan", "submit"}
                            => poll[t].ledger # poll'[s].ledger ]_vars


\* C30: isRunning becomes true only in the step of start() that follows a
\* completed initialize(); once stop() has been called, during initialize()
\* or later, isRunning is never true again and the timers are not started.
C30_LifecycleOneWay ==
    [][ /\ (~isRunning /\ isRunning') => mainPc = "loaded"
        /\ shutdown # "none"
              => /\ ~isRunning'
                 /\ mainPc # "running" => mainPc' # "running" ]_vars

====
